---- MODULE Spec2Model ----
(***************************************************************************)
(* Model of train.py (Iterative Transformation Network training, plane     *)
(* sampling and labelling): get_train_pairs, the setup that precedes it in *)
(* main, and main's training loop with its checkpoints.                    *)
(*                                                                         *)
(* Number representation.                                                  *)
(*  - Lengths are exact rationals kept as integers in units of 1/Unit      *)
(*    voxel, Unit == 2 * den(trans_frac) * RandDen, so that line 310 is    *)
(*    computed without rounding.  Floating-point rounding is not modelled. *)
(*  - Angles are whole quarter turns (1 == pi/2); rotations are therefore  *)
(*    signed permutation matrices and stay integer under products.         *)
(*  - A quaternion is kept as an integer vector on the ray of the unit     *)
(*    quaternion (quaternion_matrix normalises its argument).              *)
(*  - The process-wide generator np.random is a linear congruential        *)
(*    generator over 0..RngMod-1: the draws are a function of its state,   *)
(*    and every draw advances it.                                          *)
(*  - The network's variables held by the session are kept as the number   *)
(*    of optimizer steps that produced them.                               *)
(***************************************************************************)
EXTENDS Integers, Sequences, FiniteSets, TLC

\* ------------------------------------------------------------- bounds
BatchSize == 2
RandDen == 77
RngMod == 256
MaxSteps == 3       \* largest Config.max_steps and Config.save_interval
MaxLaunches == 2    \* launches of main on one model_dir

\* literals of main
SummaryEvery == 10  \* line 200: i % 10
MaxToKeep == 20     \* lines 187 and 193: tf.train.Saver(max_to_keep=20)

Rows == 0 .. (BatchSize - 1)
Axes == 0 .. 2
Slots == 0 .. 5
Conv == 0 .. 5

VARIABLES
    data,           \* the dataset: images (shapes), trans_vecs, quats
    config,         \* the Config object
    rng,            \* state of the process-wide generator np.random
    pc,             \* position in main / get_train_pairs
    processed,      \* the rows whose loop body has run, in execution order
    ind,            \* image index of each row
    euler_angles,   \* sampled Euler angles of each row
    slices,         \* get_train_pairs' arrays
    trans,
    rots,
    trans_diff,
    rots_diff,
    euler,
    actions_tran,
    actions_rot,
    seed0,          \* generator state when get_train_pairs was entered
    run,            \* 1 for the first run, 2 for the rerun from the same seed
    first,          \* what the first run returned (kept for the rerun)
    ite,            \* main's loop variable i
    ite_start,
    ite_end,
    weights,        \* the session's variables: optimizer steps that made them
    checkpoints,    \* model_dir: the saved checkpoints, latest last
    trained,        \* the values of i at which this launch ran train_step
    saved,          \* the global_step labels this launch saved
    summaries,      \* the steps at which this launch wrote summaries
    launches        \* number of launches of main so far

vars == <<data, config, rng, pc, processed, ind, euler_angles, slices, trans,
          rots, trans_diff, rots_diff, euler, actions_tran, actions_rot,
          seed0, run, first, ite, ite_start, ite_end, weights, checkpoints,
          trained, saved, summaries, launches>>

shared == <<data, config, rng>>
arrays == <<slices, trans, rots, trans_diff, rots_diff, euler>>
labels == <<actions_tran, actions_rot>>
training == <<ite, ite_start, ite_end, weights, checkpoints, trained, saved,
              summaries, launches>>

\* ------------------------------------------------------- small helpers
Abs(x) == IF x < 0 THEN -x ELSE x

Vec3(a, b, c) == [k \in Axes |-> IF k = 0 THEN a ELSE IF k = 1 THEN b ELSE c]

Zeros3 == [k \in Axes |-> 0]

Zeros4 == <<0, 0, 0, 0>>

Zeros6 == [s \in Slots |-> 0]

ZeroEuler == [c \in Conv |-> Zeros3]

Identity4 == [r \in 0 .. 3 |-> [c \in 0 .. 3 |-> IF r = c THEN 1 ELSE 0]]

\* np.matmul of two 4x4 matrices
MatMul(A, B) ==
    [r \in 0 .. 3 |-> [c \in 0 .. 3 |->
        A[r][0] * B[0][c] + A[r][1] * B[1][c] + A[r][2] * B[2][c] + A[r][3] * B[3][c]]]

\* mat[:3, 3] = t
SetTranslation(M, t) ==
    [r \in 0 .. 3 |-> [c \in 0 .. 3 |-> IF c = 3 /\ r < 3 THEN t[r] ELSE M[r][c]]]

\* mat[:3, 3]
TranslationOf(M) == [k \in Axes |-> M[k][3]]

\* np.argmax: index of the first occurrence of the maximum of f over 0..n-1
ArgMaxLast(f, n) ==
    CHOOSE k \in 0 .. (n - 1) :
        /\ \A j \in 0 .. (n - 1) : f[j] <= f[k]
        /\ \A j \in (k + 1) .. (n - 1) : f[j] < f[k]

ArgMax(f, n) ==
    CHOOSE k \in 0 .. (n - 1) :
        /\ \A j \in 0 .. (n - 1) : f[j] <= f[k]
        /\ \A j \in 0 .. (k - 1) : f[j] < f[k]

\* ------------------------------------------- rotation algebra (geometry)
\* Hamilton product of two quaternions <<w, x, y, z>>
QMul(p, q) ==
    << p[1] * q[1] - p[2] * q[2] - p[3] * q[3] - p[4] * q[4],
       p[1] * q[2] + p[2] * q[1] + p[3] * q[4] - p[4] * q[3],
       p[1] * q[3] - p[2] * q[4] + p[3] * q[1] + p[4] * q[2],
       p[1] * q[4] + p[2] * q[3] - p[3] * q[2] + p[4] * q[1] >>

\* quaternion of a rotation by a quarter turns about one axis, on the ray of
\* (cos(a*pi/4), sin(a*pi/4) * axis)
AxisQuat(axis, a) ==
    LET c == IF Abs(a) = 2 THEN 0 ELSE 1
        s == IF a = 0 THEN 0 ELSE IF a > 0 THEN 1 ELSE -1
    IN  << c, IF axis = 0 THEN s ELSE 0, IF axis = 1 THEN s ELSE 0,
           IF axis = 2 THEN s ELSE 0 >>

\* geometry.quaternion_from_euler(ai, aj, ak, 'rxyz'): rotate about x, then the
\* new y, then the new z
quaternion_from_euler(ai, aj, ak) ==
    QMul(QMul(AxisQuat(0, ai), AxisQuat(1, aj)), AxisQuat(2, ak))

\* geometry.quaternion_matrix(q): homogeneous rotation matrix of q, which is
\* normalised first; the identity for a quaternion of (near) zero norm
quaternion_matrix(q) ==
    LET n == q[1] * q[1] + q[2] * q[2] + q[3] * q[3] + q[4] * q[4]
        P(a, b) == 2 * q[a + 1] * q[b + 1]
    IN  IF n = 0 THEN Identity4
        ELSE [r \in 0 .. 3 |-> [c \in 0 .. 3 |->
            CASE r = 0 /\ c = 0 -> (n - P(2, 2) - P(3, 3)) \div n
              [] r = 0 /\ c = 1 -> (P(1, 2) - P(3, 0)) \div n
              [] r = 0 /\ c = 2 -> (P(1, 3) + P(2, 0)) \div n
              [] r = 1 /\ c = 0 -> (P(1, 2) + P(3, 0)) \div n
              [] r = 1 /\ c = 1 -> (n - P(1, 1) - P(3, 3)) \div n
              [] r = 1 /\ c = 2 -> (P(2, 3) - P(1, 0)) \div n
              [] r = 2 /\ c = 0 -> (P(1, 3) - P(2, 0)) \div n
              [] r = 2 /\ c = 1 -> (P(2, 3) + P(1, 0)) \div n
              [] r = 2 /\ c = 2 -> (n - P(1, 1) - P(2, 2)) \div n
              [] r = 3 /\ c = 3 -> 1
              [] OTHER -> 0]]

\* geometry.inv_mat(M): inverse of a rigid transform, the transposed rotation
\* block and the negated, rotated translation
inv_mat(M) ==
    [r \in 0 .. 3 |-> [c \in 0 .. 3 |->
        IF r = 3 THEN (IF c = 3 THEN 1 ELSE 0)
        ELSE IF c < 3 THEN M[c][r]
        ELSE -(M[0][r] * M[0][3] + M[1][r] * M[1][3] + M[2][r] * M[2][3])]]

RotationOf(M) == [r \in Axes |-> [c \in Axes |-> M[r][c]]]

\* the 24 rotations of the quarter-turn lattice, one quaternion per rotation:
\* scalar part non-negative, first non-zero component positive
CubeQuats ==
    { q \in [1 .. 4 -> -1 .. 1] :
        /\ (q[1] * q[1] + q[2] * q[2] + q[3] * q[3] + q[4] * q[4]) \in {1, 2, 4}
        /\ \E a \in 1 .. 4 : q[a] = 1 /\ \A b \in 1 .. (a - 1) : q[b] = 0 }

\* geometry.quaternion_from_matrix(M, isprecise=True): the quaternion whose
\* rotation matrix is M's rotation block, with canonical sign
CubeMats == [q \in CubeQuats |-> RotationOf(quaternion_matrix(q))]

quaternion_from_matrix(M) ==
    LET R == RotationOf(M) IN CHOOSE q \in CubeQuats : CubeMats[q] = R

\* math.atan2(y, x) in quarter turns, for (y, x) on a coordinate axis
Atan2Q(y, x) ==
    IF y > 0 THEN 1 ELSE IF y < 0 THEN -1 ELSE IF x < 0 THEN 2 ELSE 0

NextAxis(n) == (n + 1) % 3

\* the six static conventions in the order of the table of line 291:
\* <<first axis, parity>> of sxyz, sxzy, syxz, syzx, szxy, szyx
AxesTuple(conv) ==
    CASE conv = 0 -> <<0, 0>>
      [] conv = 1 -> <<0, 1>>
      [] conv = 2 -> <<1, 1>>
      [] conv = 3 -> <<1, 0>>
      [] conv = 4 -> <<2, 0>>
      [] conv = 5 -> <<2, 1>>

\* geometry.euler_from_matrix(M, axes): the three angles of M under a static
\* convention without repetition; at gimbal lock the third angle is zero
euler_from_matrix(M, conv) ==
    LET i == AxesTuple(conv)[1]
        parity == AxesTuple(conv)[2]
        j == NextAxis(i + parity)
        k == NextAxis(i - parity + 1)
        cy == IF M[i][i] # 0 \/ M[j][i] # 0 THEN 1 ELSE 0
        ax == IF cy > 0 THEN Atan2Q(M[k][j], M[k][k]) ELSE Atan2Q(-M[j][k], M[j][j])
        ay == Atan2Q(-M[k][i], cy)
        az == IF cy > 0 THEN Atan2Q(M[j][i], M[i][i]) ELSE 0
    IN  IF parity = 1 THEN Vec3(-ax, -ay, -az) ELSE Vec3(ax, ay, az)

\* ------------------------------------------ the generator (np.random)
\* one step of the generator
Advance(s) == (s * 69 + 169) % RngMod

\* the state after n draws
RECURSIVE AdvanceBy(_, _)
AdvanceBy(s, n) == IF n = 0 THEN s ELSE AdvanceBy(Advance(s), n - 1)

\* the n-th draw from state s (n >= 1), as an integer in 0..k-1
DrawInt(s, n, k) == (AdvanceBy(s, n) * k) \div RngMod

\* ------------------------------------------------- dataset and Config
\* data.images (each volume by its shape), data.trans_vecs (voxels, centre
\* origin) and data.quats of the selected plane
Datasets ==
    { [ images     |-> [n \in 0 .. 2 |->
                          CASE n = 0 -> Vec3(22, 22, 22)
                            [] n = 1 -> Vec3(64, 64, 64)
                            [] n = 2 -> Vec3(154, 154, 154)],
        trans_vecs |-> [n \in 0 .. 2 |->
                          CASE n = 0 -> Vec3(0, 0, 0)
                            [] n = 1 -> Vec3(3, -2, 1)
                            [] n = 2 -> Vec3(-10, 3, 7)],
        quats      |-> [n \in 0 .. 2 |->
                          CASE n = 0 -> <<1, 0, 0, 0>>
                            [] n = 1 -> <<1, 1, 0, 0>>
                            [] n = 2 -> <<1, 0, 0, 0>>] ] }

\* class Config: the fields get_train_pairs and the training loop read.
\* trans_frac is the fraction <<numerator, denominator>>; max_euler is in
\* quarter turns.
MkConfig(box, planes, frac, me) ==
    [box_size |-> box, input_plane |-> planes, trans_frac |-> frac, max_euler |-> me,
     resume |-> FALSE, max_steps |-> MaxSteps, save_interval |-> MaxSteps]

Configs ==
    { MkConfig(<<225, 225>>, 3, <<3, 5>>, Vec3(1, 1, 1)),
      MkConfig(<<225, 225>>, 3, <<1, 2>>, Vec3(0, 0, 0)),
      MkConfig(<<225, 225>>, 1, <<1, 2>>, Vec3(1, 0, 1)),
      MkConfig(<<224, 224>>, 3, <<3, 5>>, Vec3(1, 1, 1)),
      MkConfig(<<225, 225>>, 3, <<6, 5>>, Vec3(0, 0, 0)),
      MkConfig(<<225, 225>>, 3, <<1, 2>>, Vec3(-1, 1, 1)) }

\* a configuration the comments of Config and the docstring of
\* get_train_pairs rule out: an even box_size, a trans_frac outside (0,1), a
\* negative max_euler
Malformed(c) ==
    \/ c.box_size[1] % 2 = 0
    \/ c.box_size[2] % 2 = 0
    \/ ~(0 < c.trans_frac[1] /\ c.trans_frac[1] < c.trans_frac[2])
    \/ \E k \in Axes : c.max_euler[k] < 0

\* the configurations of the training loop: resume, max_steps and
\* save_interval vary
TrainConfigs ==
    { [c EXCEPT !.resume = r, !.max_steps = m, !.save_interval = v] :
        c \in {d \in Configs : ~Malformed(d)},
        r \in BOOLEAN, m \in 1 .. MaxSteps, v \in 1 .. MaxSteps }

\* generator states a launch of the training loop starts from
TrainSeeds == {0}

\* scaled lengths per voxel
Unit == 2 * config.trans_frac[2] * RandDen

\* ------------------------------------------------ get_train_pairs, body
\* geometry.sample_euler_angles_fix_range: angle k of row i, uniform over
\* {-max, 0, max}; draws BatchSize + 1 .. 4 * BatchSize of the call
SampleEulerAngle(s, i, k) ==
    config.max_euler[k] * (DrawInt(s, BatchSize + 3 * i + k + 1, 3) - 1)

\* line 310, one axis, times Unit: r is the numerator of np.random.rand()
\* and n the axis length.
\*   rand * (n * f)  +  n * (1 - f) / 2.0  -  (n - 1) / 2.0
SampleTranNoCentre(r, n) ==
    LET p == config.trans_frac[1]
        q == config.trans_frac[2]
    IN  2 * r * n * p + RandDen * n * (q - p)

SampleTranFullWidth(r, n) ==
    LET p == config.trans_frac[1]
        q == config.trans_frac[2]
    IN  2 * r * n * q + RandDen * n * (q - p) - RandDen * q * (n - 1)

SampleTran(r, n) ==
    LET p == config.trans_frac[1]
        q == config.trans_frac[2]
    IN  2 * r * n * p + RandDen * n * (q - p) - RandDen * q * (n - 1)

\* lines 324-325: the sampled pose
SampledMat(rot, tran) == SetTranslation(quaternion_matrix(rot), tran)

\* lines 339-340: the ground-truth pose
GtMat(rot_gt, tran_gt) ==
    SetTranslation(quaternion_matrix(rot_gt), [k \in Axes |-> Unit * tran_gt[k]])

\* lines 338 and 341: mat_diff = inv(mat) . mat_gt
MatDiffSwapped(mat, mat_gt) == MatMul(mat_gt, inv_mat(mat))

MatDiff(mat, mat_gt) == MatMul(inv_mat(mat), mat_gt)

\* lines 318-333: the plane image(s) resampled from a volume at a pose
ZeroSlice == [image |-> -1, planes |-> 0, mat |-> Identity4]

ExtractPlanes(image, mat) ==
    [image |-> image, planes |-> config.input_plane, mat |-> mat]

\* lines 311, 313, 333, 342, 343, 346-351: arr[i] = v
WriteRowBroadcast(arr, i, v) == [j \in Rows |-> v]

WriteRow(arr, i, v) == [arr EXCEPT ![i] = v]

\* lines 302-307: image, tran_gt and rot_gt are views of the dataset that the
\* loop body only reads; the dataset after the body of row i
DataAfterSampleAliased(i) ==
    [data EXCEPT !.trans_vecs[ind[i]] = [k \in Axes |-> @[k] + 1]]

DataAfterSample(i) == data

\* --------------------------------------------- get_train_pairs, labels
\* lines 354-365 for one row: the slot of the rotation label
RotSlotByRowMod(eu) ==
    LET max_ind_rot == ArgMax([c \in Conv |-> Abs(eu[c][0])], 6)
        axis == max_ind_rot % 3
    IN  IF eu[max_ind_rot][0] > 0 THEN axis * 2 ELSE axis * 2 + 1

RotSlot(eu) ==
    LET max_ind_rot == ArgMax([c \in Conv |-> Abs(eu[c][0])], 6)
        axis == CASE max_ind_rot \in {0, 1} -> 0
                  [] max_ind_rot \in {2, 3} -> 1
                  [] max_ind_rot \in {4, 5} -> 2
    IN  IF eu[max_ind_rot][0] > 0 THEN axis * 2 ELSE axis * 2 + 1

\* lines 369-374 for one row: the slot of the translation label
TranSlotZeroPositive(td) ==
    LET max_ind_tran == ArgMax([k \in Axes |-> Abs(td[k])], 3)
    IN  IF td[max_ind_tran] >= 0 THEN max_ind_tran * 2 ELSE max_ind_tran * 2 + 1

TranSlot(td) ==
    LET max_ind_tran == ArgMax([k \in Axes |-> Abs(td[k])], 3)
    IN  IF td[max_ind_tran] > 0 THEN max_ind_tran * 2 ELSE max_ind_tran * 2 + 1

\* lines 366 and 375: actions[np.arange(batch_size), slot] = 1
SetOneHotColumns(actions, slot) ==
    [i \in Rows |-> [s \in Slots |->
        IF \E j \in Rows : s = slot[j] THEN 1 ELSE actions[i][s]]]

SetOneHot(actions, slot) ==
    [i \in Rows |-> [s \in Slots |-> IF s = slot[i] THEN 1 ELSE actions[i][s]]]

\* what get_train_pairs returns (line 377), with trans and rots
Outputs == <<slices, actions_tran, trans_diff, actions_rot, rots_diff, trans, rots>>

\* ------------------------------------------------- main, checkpoints
\* line 246: saver.save names the file model_dir/model-<global_step>; a path
\* is kept as the sequence of its parts between '-'
CheckpointPath(global_step) == <<"./cnn_model/model", global_step>>

\* line 188: int(path.split('-')[-1])
StepOfPath(path) == path[Len(path)]

\* tf.train.latest_checkpoint(config.model_dir)
LatestCheckpoint == checkpoints[Len(checkpoints)]

\* line 245: the test that decides whether iteration i saves
SaveDueAtIndex(i) == (i % config.save_interval) = 0

SaveDue(i) == ((i + 1) % config.save_interval) = 0

\* line 246 on the directory dir: the file of that path is (over)written and
\* becomes the latest; mine are the labels this launch's saver has saved,
\* of which it keeps the last MaxToKeep
SaverSave(dir, ckpt, mine) ==
    LET Other(c) == c.path # ckpt.path
        all == Append(SelectSeq(dir, Other), ckpt)
        Kept(c) == c.path # CheckpointPath(mine[Len(mine) - MaxToKeep])
    IN  IF Len(mine) > MaxToKeep THEN SelectSeq(all, Kept) ELSE all

\* ----------------------------------------------------------- actions
\* a process that has not yet run main
InitLocals ==
    /\ pc = "main"
    /\ processed = << >>
    /\ ind = [i \in Rows |-> 0]
    /\ euler_angles = [i \in Rows |-> Zeros3]
    /\ slices = [i \in Rows |-> ZeroSlice]
    /\ trans = [i \in Rows |-> Zeros3]
    /\ rots = [i \in Rows |-> Zeros4]
    /\ trans_diff = [i \in Rows |-> Zeros3]
    /\ rots_diff = [i \in Rows |-> Zeros4]
    /\ euler = [i \in Rows |-> ZeroEuler]
    /\ actions_tran = [i \in Rows |-> Zeros6]
    /\ actions_rot = [i \in Rows |-> Zeros6]
    /\ ite = 0
    /\ ite_start = 0
    /\ ite_end = 0
    /\ weights = 0
    /\ trained = << >>
    /\ saved = << >>
    /\ summaries = << >>

Init ==
    /\ data \in Datasets
    /\ config \in Configs
    /\ rng \in 0 .. (RngMod - 1)
    /\ InitLocals
    /\ checkpoints = << >>
    /\ launches = 1
    /\ seed0 = rng
    /\ run = 1
    /\ first = << >>

\* main, lines 58-195: the Config object, the data sets, the graph and the
\* session; no check of the configuration is made.  Lines 183-195: the
\* variables are restored from the latest checkpoint (none: the restore
\* raises) or initialised, and the range of the loop is set.
Setup ==
    /\ pc = "main"
    /\ IF config.resume
       THEN IF checkpoints = << >>
            THEN /\ pc' = "crashed"
                 /\ UNCHANGED <<weights, ite_start, ite_end, ite>>
            ELSE /\ weights' = LatestCheckpoint.weights
                 /\ ite_start' = StepOfPath(LatestCheckpoint.path)
                 /\ ite_end' = StepOfPath(LatestCheckpoint.path) + config.max_steps
                 /\ ite' = StepOfPath(LatestCheckpoint.path)
                 /\ pc' = "ready"
       ELSE /\ weights' = 0
            /\ ite_start' = 0
            /\ ite_end' = config.max_steps
            /\ ite' = 0
            /\ pc' = "ready"
    /\ UNCHANGED <<shared, processed, ind, euler_angles, arrays, labels, seed0, run, first,
                   checkpoints, trained, saved, summaries, launches>>

\* get_train_pairs, lines 276-299: the arrays are allocated as zeros, the
\* image indices and the Euler angles of the whole batch are drawn
Enter ==
    /\ pc = "ready"
    /\ seed0' = rng
    /\ ind' = [i \in Rows |-> DrawInt(rng, i + 1, Cardinality(DOMAIN data.images))]
    /\ euler_angles' = [i \in Rows |-> [k \in Axes |-> SampleEulerAngle(rng, i, k)]]
    /\ rng' = AdvanceBy(rng, 4 * BatchSize)
    /\ slices' = [i \in Rows |-> ZeroSlice]
    /\ trans' = [i \in Rows |-> Zeros3]
    /\ rots' = [i \in Rows |-> Zeros4]
    /\ trans_diff' = [i \in Rows |-> Zeros3]
    /\ rots_diff' = [i \in Rows |-> Zeros4]
    /\ euler' = [i \in Rows |-> ZeroEuler]
    /\ actions_tran' = [i \in Rows |-> Zeros6]
    /\ actions_rot' = [i \in Rows |-> Zeros6]
    /\ processed' = << >>
    /\ pc' = "loop"
    /\ UNCHANGED <<data, config, run, first, training>>

\* get_train_pairs, lines 302-351: the loop body for row i (tran, mat and
\* mat_diff are each computed once and bound)
SampleBody(i) ==
    LET img_siz == data.images[ind[i]]
        tran_gt == data.trans_vecs[ind[i]]
        rot_gt  == data.quats[ind[i]]
        rot  == quaternion_from_euler(euler_angles[i][0], euler_angles[i][1],
                                      euler_angles[i][2])
    IN  \E tran \in {[k \in Axes |-> SampleTran(DrawInt(rng, k + 1, RandDen), img_siz[k])]} :
        \E mat \in {SampledMat(rot, tran)} :
        \E mat_diff \in {MatDiff(mat, GtMat(rot_gt, tran_gt))} :
        /\ rng' = AdvanceBy(rng, 3)
        /\ trans' = WriteRow(trans, i, tran)
        /\ rots' = WriteRow(rots, i, rot)
        /\ slices' = WriteRow(slices, i, ExtractPlanes(ind[i], mat))
        /\ trans_diff' = WriteRow(trans_diff, i, TranslationOf(mat_diff))
        /\ rots_diff' = WriteRow(rots_diff, i, quaternion_from_matrix(mat_diff))
        /\ euler' = WriteRow(euler, i, [c \in Conv |-> euler_from_matrix(mat_diff, c)])
        /\ data' = DataAfterSample(i)
        /\ processed' = Append(processed, i)
        /\ UNCHANGED <<config, pc, ind, euler_angles, labels, seed0, run, first, training>>

\* line 301: for i in xrange(batch_size)
Sample ==
    /\ pc = "loop"
    /\ Len(processed) < BatchSize
    /\ SampleBody(Len(processed))

\* lines 353-377: the labels of the whole batch, and the return
Label ==
    /\ pc = "loop"
    /\ Len(processed) = BatchSize
    /\ actions_rot' = SetOneHot(actions_rot, [i \in Rows |-> RotSlot(euler[i])])
    /\ actions_tran' = SetOneHot(actions_tran, [i \in Rows |-> TranSlot(trans_diff[i])])
    /\ pc' = "returned"
    /\ UNCHANGED <<shared, processed, ind, euler_angles, arrays, seed0, run, first, training>>

Next == Setup \/ Enter \/ Sample \/ Label

Spec == Init /\ [][Next]_vars

\* The loop bodies of one batch run in any order (the parallel batch assembly
\* of the specification, section 5): the body is the one of the source.
SampleAny ==
    /\ pc = "loop"
    /\ \E i \in Rows :
        /\ \A n \in 1 .. Len(processed) : processed[n] # i
        /\ SampleBody(i)

NextAnyOrder == Setup \/ Enter \/ SampleAny \/ Label

SpecAnyOrder == Init /\ [][NextAnyOrder]_vars

\* A second run from the same generator state (np.random.seed with the seed
\* of the first run), same dataset and configuration: what the first run
\* returned is kept for comparison.
Rerun ==
    /\ pc = "returned"
    /\ run = 1
    /\ first' = Outputs
    /\ rng' = seed0
    /\ run' = 2
    /\ pc' = "ready"
    /\ UNCHANGED <<data, config, processed, ind, euler_angles, arrays, labels, seed0,
                   training>>

NextRerun == Setup \/ Enter \/ Sample \/ Label \/ Rerun

SpecRerun == Init /\ [][NextRerun]_vars

\* ------------------------------------------------ main, training loop
InitTrain ==
    /\ data \in Datasets
    /\ config \in TrainConfigs
    /\ rng \in TrainSeeds
    /\ InitLocals
    /\ checkpoints = << >>
    /\ launches = 1
    /\ seed0 = rng
    /\ run = 1
    /\ first = << >>

\* lines 197-198: the loop has an iteration left and calls get_train_pairs
Iterate ==
    /\ ite < ite_end
    /\ Enter

\* lines 200-230: every SummaryEvery-th step a test batch is drawn by a
\* second call of get_train_pairs (its draws advance the generator) and the
\* summaries of step i are written
Summarise ==
    /\ pc = "returned"
    /\ IF ite % SummaryEvery = 0
       THEN /\ rng' = AdvanceBy(rng, 4 * BatchSize + 3 * BatchSize)
            /\ summaries' = Append(summaries, ite)
       ELSE UNCHANGED <<rng, summaries>>
    /\ pc' = "train"
    /\ UNCHANGED <<data, config, processed, ind, euler_angles, arrays, labels, seed0, run,
                   first, ite, ite_start, ite_end, weights, checkpoints, trained, saved,
                   launches>>

\* lines 233-242: sess.run(train_step), one step of the optimizer
TrainStep ==
    /\ pc = "train"
    /\ weights' = weights + 1
    /\ trained' = Append(trained, ite)
    /\ pc' = "save"
    /\ UNCHANGED <<shared, processed, ind, euler_angles, arrays, labels, seed0, run, first,
                   ite, ite_start, ite_end, checkpoints, saved, summaries, launches>>

\* lines 245-247, and the loop's next value of i
Save ==
    /\ pc = "save"
    /\ IF SaveDue(ite)
       THEN /\ saved' = Append(saved, ite + 1)
            /\ checkpoints' = SaverSave(checkpoints,
                                        [path |-> CheckpointPath(ite + 1), weights |-> weights],
                                        Append(saved, ite + 1))
       ELSE UNCHANGED <<saved, checkpoints>>
    /\ ite' = ite + 1
    /\ pc' = "ready"
    /\ UNCHANGED <<shared, processed, ind, euler_angles, arrays, labels, seed0, run, first,
                   ite_start, ite_end, weights, trained, summaries, launches>>

\* lines 197 and 249-251: the range is exhausted, main closes the session
Finish ==
    /\ pc = "ready"
    /\ ite >= ite_end
    /\ pc' = "done"
    /\ UNCHANGED <<shared, processed, ind, euler_angles, arrays, labels, seed0, run, first,
                   training>>

\* line 380: main is launched again on the same model_dir, with
\* Config.resume set either way; nothing of the previous process is left
\* but the files
Relaunch ==
    /\ pc \in {"done", "crashed"}
    /\ launches < MaxLaunches
    /\ launches' = launches + 1
    /\ \E r \in BOOLEAN : config' = [config EXCEPT !.resume = r]
    /\ rng' \in TrainSeeds
    /\ seed0' = rng'
    /\ pc' = "main"
    /\ processed' = << >>
    /\ ind' = [i \in Rows |-> 0]
    /\ euler_angles' = [i \in Rows |-> Zeros3]
    /\ slices' = [i \in Rows |-> ZeroSlice]
    /\ trans' = [i \in Rows |-> Zeros3]
    /\ rots' = [i \in Rows |-> Zeros4]
    /\ trans_diff' = [i \in Rows |-> Zeros3]
    /\ rots_diff' = [i \in Rows |-> Zeros4]
    /\ euler' = [i \in Rows |-> ZeroEuler]
    /\ actions_tran' = [i \in Rows |-> Zeros6]
    /\ actions_rot' = [i \in Rows |-> Zeros6]
    /\ ite' = 0
    /\ ite_start' = 0
    /\ ite_end' = 0
    /\ weights' = 0
    /\ trained' = << >>
    /\ saved' = << >>
    /\ summaries' = << >>
    /\ UNCHANGED <<data, checkpoints, run, first>>

NextTrain ==
    Setup \/ Iterate \/ Sample \/ Label \/ Summarise \/ TrainStep \/ Save \/ Finish \/ Relaunch

SpecTrain == InitTrain /\ [][NextTrain]_vars

\* --------------------------------------------------------- properties
UnitVec(slot) == [s \in Slots |-> IF s = slot THEN 1 ELSE 0]

\* a is the lowest index of dom at which f is largest
FirstLargest(f, dom, a) ==
    /\ a \in dom
    /\ \A j \in dom : f[j] <= f[a]
    /\ \A j \in dom : j < a => f[j] < f[a]

AbsTran(i) == [k \in Axes |-> Abs(trans_diff[i][k])]

AbsFirstAngle(i) == [c \in Conv |-> Abs(euler[i][c][0])]

AxisOfConv(c) == IF c <= 1 THEN 0 ELSE IF c <= 3 THEN 1 ELSE 2

\* C1: in every row of a returned batch, action_translation is the one-hot
\* vector at 2*axis when trans_diff[axis] is positive and at 2*axis+1 when it
\* is negative, axis being the lowest index among the components of
\* trans_diff of largest absolute value.
C1_TranslationLabel ==
    pc = "returned" =>
        \A i \in Rows : \A axis \in Axes :
            FirstLargest(AbsTran(i), Axes, axis) =>
                /\ trans_diff[i][axis] > 0 => actions_tran[i] = UnitVec(2 * axis)
                /\ trans_diff[i][axis] < 0 => actions_tran[i] = UnitVec(2 * axis + 1)

\* a returned row whose two largest components tie at a non-zero magnitude
C1_Witness ==
    /\ pc = "returned"
    /\ \E i \in Rows : \E a, b \in Axes :
        /\ a < b
        /\ FirstLargest(AbsTran(i), Axes, a)
        /\ AbsTran(i)[b] = AbsTran(i)[a]
        /\ AbsTran(i)[a] > 0
        /\ actions_tran[i] \in {UnitVec(2 * a), UnitVec(2 * a + 1)}

\* C2: in every row of a returned batch, action_rotation follows the Euler
\* table: the row whose first angle is largest in absolute value (lowest row
\* on a tie) selects the axis (rows 0,1 x; 2,3 y; 4,5 z), and the slot is
\* 2*axis when that angle is positive and 2*axis+1 when it is negative.
C2_RotationLabel ==
    pc = "returned" =>
        \A i \in Rows : \A c \in Conv :
            FirstLargest(AbsFirstAngle(i), Conv, c) =>
                /\ euler[i][c][0] > 0 => actions_rot[i] = UnitVec(2 * AxisOfConv(c))
                /\ euler[i][c][0] < 0 => actions_rot[i] = UnitVec(2 * AxisOfConv(c) + 1)

\* a returned row in which conventions of two different axes tie at a
\* non-zero first angle
C2_Witness ==
    /\ pc = "returned"
    /\ \E i \in Rows : \E c, d \in Conv :
        /\ FirstLargest(AbsFirstAngle(i), Conv, c)
        /\ AxisOfConv(d) # AxisOfConv(c)
        /\ AbsFirstAngle(i)[d] = AbsFirstAngle(i)[c]
        /\ AbsFirstAngle(i)[c] > 0
        /\ actions_rot[i] \in {UnitVec(2 * AxisOfConv(c)), UnitVec(2 * AxisOfConv(c) + 1)}

IsOneHot(v) ==
    /\ \A s \in Slots : v[s] \in {0, 1}
    /\ Cardinality({s \in Slots : v[s] = 1}) = 1
    /\ v[0] + v[1] + v[2] + v[3] + v[4] + v[5] = 1

\* C3: in every row of a returned batch, action_translation and
\* action_rotation have no negative entry and sum to 1: exactly one of the six
\* slots is 1, the other five are 0, and the chosen slot is in 0..5.
C3_OneHot ==
    pc = "returned" =>
        \A i \in Rows :
            /\ IsOneHot(actions_tran[i])
            /\ IsOneHot(actions_rot[i])
            /\ TranSlot(trans_diff[i]) \in Slots
            /\ RotSlot(euler[i]) \in Slots
            /\ actions_tran[i][TranSlot(trans_diff[i])] = 1
            /\ actions_rot[i][RotSlot(euler[i])] = 1

\* a returned batch with a non-degenerate row (one strictly largest non-zero
\* component) and two rows labelled differently
C3_Witness ==
    /\ pc = "returned"
    /\ \E i \in Rows : \E a \in Axes :
        /\ AbsTran(i)[a] > 0
        /\ \A b \in Axes \ {a} : AbsTran(i)[b] < AbsTran(i)[a]
    /\ \E i, j \in Rows : actions_tran[i] # actions_tran[j] /\ actions_rot[i] # actions_rot[j]

\* the rotation block of the sampled pose of row i, and the two centres
SampledRot(i) == RotationOf(quaternion_matrix(rots[i]))

GtCentre(i) == [k \in Axes |-> Unit * data.trans_vecs[ind[i]][k]]

WasSampled(i) == \E n \in 1 .. Len(processed) : processed[n] = i

\* C4: the translation target of a sampled row is R_s^T (t_g - t_s), the
\* ground-truth centre in the sampled plane's frame; it is t_g - t_s when both
\* rotations are the identity; ground truth at the origin and a sampled pose
\* at (5,0,0), both unrotated, give (-5,0,0) and the label at slot 1.
C4_TranslationTarget ==
    \A i \in Rows : WasSampled(i) =>
        LET R == SampledRot(i)
            d == [k \in Axes |-> GtCentre(i)[k] - trans[i][k]]
        IN  /\ trans_diff[i] =
                 [k \in Axes |-> R[0][k] * d[0] + R[1][k] * d[1] + R[2][k] * d[2]]
            /\ (rots[i] = <<1, 0, 0, 0>> /\ data.quats[ind[i]] = <<1, 0, 0, 0>>)
                 => trans_diff[i] = d
            /\ ( /\ rots[i] = <<1, 0, 0, 0>>
                 /\ data.quats[ind[i]] = <<1, 0, 0, 0>>
                 /\ GtCentre(i) = Zeros3
                 /\ trans[i] = Vec3(5 * Unit, 0, 0) )
                 => /\ trans_diff[i] = Vec3(-5 * Unit, 0, 0)
                    /\ pc = "returned" => actions_tran[i] = UnitVec(1)

\* the scenario: unrotated ground truth at the origin, unrotated sample at
\* (5,0,0)
C4_Witness ==
    /\ pc = "returned"
    /\ \E i \in Rows :
        /\ rots[i] = <<1, 0, 0, 0>>
        /\ data.quats[ind[i]] = <<1, 0, 0, 0>>
        /\ GtCentre(i) = Zeros3
        /\ trans[i] = Vec3(5 * Unit, 0, 0)
        /\ trans_diff[i] = Vec3(-5 * Unit, 0, 0)
        /\ actions_tran[i] = UnitVec(1)

\* trans_frac is a fraction strictly between 0 and 1
ValidFrac == 0 < config.trans_frac[1] /\ config.trans_frac[1] < config.trans_frac[2]

\* half the width shape * trans_frac of the sampling interval, and half a
\* voxel, in scaled units
HalfWidth(n) == RandDen * n * config.trans_frac[1]

HalfVoxel == RandDen * config.trans_frac[2]

ShapeOf(i) == data.images[ind[i]]

\* C5 as stated: every component of a sampled translation lies in the centred
\* interval [-(N*f)/2, (N*f)/2]; within [-19.2, 19.2] for shape 64 and f = 0.6
\* (stated for well-formed configurations).
C5_CentredInterval ==
    \A i \in Rows : (WasSampled(i) /\ ~Malformed(config)) =>
        \A k \in Axes :
            /\ -HalfWidth(ShapeOf(i)[k]) <= trans[i][k]
            /\ trans[i][k] <= HalfWidth(ShapeOf(i)[k])
            /\ (ShapeOf(i)[k] = 64 /\ config.trans_frac = <<3, 5>>) =>
                   (-192 * Unit <= 10 * trans[i][k] /\ 10 * trans[i][k] <= 192 * Unit)

\* C5 amended: every component of a sampled translation lies in the interval
\* [-(N*f)/2 + 1/2, (N*f)/2 + 1/2), the centred interval moved up by half a
\* voxel; within [-18.7, 19.7) for shape 64 and f = 0.6.
C5_ShiftedInterval ==
    \A i \in Rows : (WasSampled(i) /\ ValidFrac) =>
        \A k \in Axes :
            /\ -HalfWidth(ShapeOf(i)[k]) + HalfVoxel <= trans[i][k]
            /\ trans[i][k] < HalfWidth(ShapeOf(i)[k]) + HalfVoxel
            /\ (ShapeOf(i)[k] = 64 /\ config.trans_frac = <<3, 5>>) =>
                   (-187 * Unit <= 10 * trans[i][k] /\ 10 * trans[i][k] < 197 * Unit)

\* a translation sampled in the 64-voxel volume at f = 0.6 with a component
\* above 19.2
C5_Witness ==
    \E i \in Rows : \E k \in Axes :
        /\ WasSampled(i)
        /\ ShapeOf(i)[k] = 64
        /\ config.trans_frac = <<3, 5>>
        /\ 10 * trans[i][k] > 192 * Unit
        /\ 10 * trans[i][k] < 197 * Unit

\* C6 as stated: under a malformed configuration (even box_size, trans_frac
\* outside (0,1), negative max_euler) nothing is drawn, sampled or labelled:
\* the generator is untouched and get_train_pairs' loop is never reached.
C6_MalformedRejected ==
    Malformed(config) =>
        /\ rng = seed0
        /\ processed = << >>
        /\ pc \notin {"loop", "returned"}

C8_NoSharedMutation ==
    [][(Sample /\ ~Malformed(config)) => UNCHANGED <<data, config, rng>>]_vars

\* C8 amended: the loop body of a sample leaves the dataset (images,
\* trans_vecs, quats) and the configuration unchanged, and advances the
\* process-wide generator by its three draws.
C8_DataKeptGeneratorAdvanced ==
    [][Sample => (UNCHANGED <<data, config>> /\ rng' = AdvanceBy(rng, 3))]_vars

\* a loop body has run and left the generator in another state
C8_Witness ==
    /\ pc = "loop"
    /\ Len(processed) >= 1
    /\ rng = AdvanceBy(seed0, 4 * BatchSize + 3 * Len(processed))
    /\ rng # AdvanceBy(seed0, 4 * BatchSize + 3 * (Len(processed) - 1))
    /\ data \in Datasets

\* the translation row i receives from the draws at position n of the loop
TranAtPosition(i, n) ==
    [k \in Axes |->
        SampleTran(DrawInt(seed0, 4 * BatchSize + 3 * n + k + 1, RandDen), ShapeOf(i)[k])]

\* the difference row i receives for the sampled translation t
DiffFor(i, t) ==
    TranslationOf(MatDiff(SampledMat(rots[i], t),
                          GtMat(data.quats[ind[i]], data.trans_vecs[ind[i]])))

PositionOf(i) == CHOOSE n \in 1 .. Len(processed) : processed[n] = i

\* C9 as stated: whatever the order in which the loop bodies of a batch run,
\* the returned batch is the one of index order 0..batch_size-1 (stated for
\* well-formed configurations).
C9_OrderIndependent ==
    (pc = "returned" /\ ~Malformed(config)) =>
        \A i \in Rows :
            /\ trans[i] = TranAtPosition(i, i)
            /\ trans_diff[i] = DiffFor(i, TranAtPosition(i, i))

\* C9 amended: the loop body of sample i writes row i of each array and no
\* other row (a row not yet sampled is as allocated, a sampled row keeps what
\* its own body wrote); the translation it writes is made of the generator's
\* draws at its position in the execution order, so that it is the row of
\* index order exactly when the draws at the two positions agree.
C9_RowsByExecutionOrder ==
    pc \in {"loop", "returned"} =>
        \A i \in Rows :
            IF WasSampled(i)
            THEN /\ trans[i] = TranAtPosition(i, PositionOf(i) - 1)
                 /\ rots[i] = quaternion_from_euler(euler_angles[i][0],
                                euler_angles[i][1], euler_angles[i][2])
                 /\ slices[i] = ExtractPlanes(ind[i], SampledMat(rots[i], trans[i]))
                 /\ trans_diff[i] = DiffFor(i, trans[i])
                 /\ rots_diff[i] # Zeros4
                 /\ PositionOf(i) - 1 = i => trans[i] = TranAtPosition(i, i)
            ELSE /\ trans[i] = Zeros3
                 /\ rots[i] = Zeros4
                 /\ slices[i] = ZeroSlice
                 /\ trans_diff[i] = Zeros3
                 /\ rots_diff[i] = Zeros4
                 /\ euler[i] = ZeroEuler

\* a batch returned after its rows ran out of index order, whose row 0 is not
\* the row of index order
C9_Witness ==
    /\ pc = "returned"
    /\ processed[1] # 0
    /\ trans[0] # TranAtPosition(0, 0)

\* C10: in the 0-based index frame (index = translation + (N-1)/2) every
\* component of a sampled plane centre lies in [N*(1-f)/2, N*(1+f)/2), the
\* sub-box of fraction f centred at N/2; equivalently the translation is a
\* point r*N*f - N*f/2 of the centred interval moved up by half a voxel.
C10_MiddleFraction ==
    \A i \in Rows : (WasSampled(i) /\ ValidFrac) =>
        \A k \in Axes :
            LET n == ShapeOf(i)[k]
                p == config.trans_frac[1]
                q == config.trans_frac[2]
                index == trans[i][k] + RandDen * q * (n - 1)
            IN  /\ RandDen * n * (q - p) <= index
                /\ index < RandDen * n * (q + p)
                /\ \E r \in 0 .. (RandDen - 1) :
                       trans[i][k] = (2 * r * n * p - HalfWidth(n)) + HalfVoxel

\* a sampled plane centre with a component in the top half voxel of the
\* sub-box, above the centred interval
C10_Witness ==
    \E i \in Rows : \E k \in Axes :
        /\ WasSampled(i)
        /\ ValidFrac
        /\ trans[i][k] > HalfWidth(ShapeOf(i)[k])
        /\ trans[i][k] + HalfVoxel * (ShapeOf(i)[k] - 1)
               < RandDen * ShapeOf(i)[k] * (config.trans_frac[1] + config.trans_frac[2])

\* C11: both sign tests are "strictly positive, else the odd slot": in a
\* returned row whose selected component of trans_diff (selected first Euler
\* angle) is exactly 0 the label is at the odd slot of the selected axis; a row
\* whose sampled pose is the ground-truth pose (trans_diff all zero, the six
\* first Euler angles zero) is labelled at slot 1 in both action_translation
\* and action_rotation; no returned label is all zero ("no move").
C11_ZeroTakesOddSlot ==
    pc = "returned" =>
        \A i \in Rows :
            /\ \A axis \in Axes :
                   (FirstLargest(AbsTran(i), Axes, axis) /\ trans_diff[i][axis] = 0)
                       => actions_tran[i] = UnitVec(2 * axis + 1)
            /\ \A c \in Conv :
                   (FirstLargest(AbsFirstAngle(i), Conv, c) /\ euler[i][c][0] = 0)
                       => actions_rot[i] = UnitVec(2 * AxisOfConv(c) + 1)
            /\ (trans_diff[i] = Zeros3 /\ \A c \in Conv : euler[i][c][0] = 0)
                   => (actions_tran[i] = UnitVec(1) /\ actions_rot[i] = UnitVec(1))
            /\ actions_tran[i] # Zeros6
            /\ actions_rot[i] # Zeros6

\* a returned row sampled exactly at a ground-truth pose away from the
\* origin, labelled -x for both translation and rotation
C11_Witness ==
    /\ pc = "returned"
    /\ \E i \in Rows :
        /\ trans[i] = GtCentre(i)
        /\ trans[i] # Zeros3
        /\ SampledRot(i) = RotationOf(quaternion_matrix(data.quats[ind[i]]))
        /\ trans_diff[i] = Zeros3
        /\ \A c \in Conv : euler[i][c][0] = 0
        /\ actions_tran[i] = UnitVec(1)
        /\ actions_rot[i] = UnitVec(1)

\* the elements of a sequence
Elements(seq) == {seq[n] : n \in 1 .. Len(seq)}

\* the iterations this launch has completed (train step and save test done)
Completed == ite - ite_start

\* the range and the steps of the loop: i runs from ite_start, at most to
\* ite_start + max_steps - 1; train_step has run once at each value of i
\* passed and at no other; the session's variables are those of ite_start
\* steps plus one per iteration
LoopRange ==
    pc \notin {"main", "crashed"} =>
        /\ ~config.resume => ite_start = 0
        /\ ite_end = ite_start + config.max_steps
        /\ ite_start <= ite /\ ite <= ite_end
        /\ pc \in {"loop", "returned", "train", "save"} => ite < ite_end
        /\ Len(trained) = Completed + (IF pc = "save" THEN 1 ELSE 0)
        /\ \A n \in 1 .. Len(trained) : trained[n] = ite_start + n - 1
        /\ weights = ite_start + Len(trained)
        /\ pc = "done" => (ite = ite_end /\ Len(trained) = config.max_steps)

\* the labels saved by this launch are the multiples of save_interval among
\* ite_start+1 .. ite_start+Completed, each once, and none lies after the last
\* multiple of save_interval
SavedAtMultiples ==
    pc \notin {"main", "crashed"} =>
        /\ \A L \in (ite_start + 1) .. (ite_start + Completed) :
               (L \in Elements(saved)) <=> ((L % config.save_interval) = 0)
        /\ Elements(saved) \subseteq (ite_start + 1) .. (ite_start + Completed)
        /\ \A m, n \in 1 .. Len(saved) : m < n => saved[m] < saved[n]
        /\ \A L \in Elements(saved) : L <= ite_end - (ite_end % config.save_interval)
        /\ Len(saved) <= MaxToKeep =>
               \A L \in Elements(saved) :
                   \E n \in 1 .. Len(checkpoints) : checkpoints[n].path = CheckpointPath(L)

\* the label of every checkpoint in model_dir is the number of optimizer
\* steps that made the variables it holds
LabelIsStepCount ==
    \A n \in 1 .. Len(checkpoints) :
        StepOfPath(checkpoints[n].path) = checkpoints[n].weights

\* what the steps of main do to the range and to model_dir
LoopSteps ==
    /\ (Setup /\ pc' = "ready") =>
           /\ ite_start' = IF config.resume THEN StepOfPath(LatestCheckpoint.path) ELSE 0
           /\ ite' = ite_start'
           /\ weights' = ite_start'
    /\ TrainStep => (weights' = weights + 1 /\ UNCHANGED <<ite, checkpoints>>)
    /\ Save =>
           /\ trained # << >> /\ trained[Len(trained)] = ite
           /\ weights = ite + 1
           /\ ite' = ite + 1
           /\ IF ((ite + 1) % config.save_interval) = 0
              THEN /\ checkpoints' # << >>
                   /\ checkpoints'[Len(checkpoints')] =
                          [path |-> CheckpointPath(ite + 1), weights |-> ite + 1]
              ELSE UNCHANGED checkpoints
    /\ checkpoints' # checkpoints => pc = "save"

\* C12: the training loop runs i over ite_start .. ite_start+max_steps-1
\* (ite_start is 0 for a fresh run and the step number of the latest
\* checkpoint on resume), runs the optimizer exactly once per iteration, and
\* saves exactly at the iterations with (i+1) mod save_interval = 0, after
\* that iteration's optimizer step, under the label i+1; every checkpoint's
\* label is the number of optimizer steps, counted from step 0 across
\* resumes, that made the variables it holds, and the steps after the last
\* multiple of save_interval are in no checkpoint.
C12_TrainingLoop ==
    /\ [](LoopRange /\ SavedAtMultiples /\ LabelIsStepCount)
    /\ [][LoopSteps]_vars

\* a resumed launch that has ended: it started at the step of the latest
\* checkpoint, saved under a label beyond max_steps, and its last step came
\* after the last multiple of save_interval
C12_Witness ==
    /\ pc = "done"
    /\ launches = 2
    /\ config.resume
    /\ ite_start > 0
    /\ saved # << >>
    /\ saved[Len(saved)] > config.max_steps
    /\ checkpoints[Len(checkpoints)].weights = saved[Len(saved)]
    /\ (ite_end % config.save_interval) # 0
    /\ weights = ite_end
    /\ weights > saved[Len(saved)]

====
